---------------------------- MODULE Spec2Model ----------------------------
(***************************************************************************)
(* Model of the hmtk device layer (src/src/mqtt/device.rs, src/src/units.rs *)
(* and src/src/mqtt/mod.rs): the status codec Message::parse, the raw       *)
(* field decoder generated by message!, the domain transform                *)
(* DeviceInfo::from, the Device session and the DeviceLoop event loop that  *)
(* share a tokio watch channel.                                             *)
(*                                                                          *)
(* Text is a sequence of one-character strings.  A byte that is not ASCII   *)
(* is written as a token "xHH".                                             *)
(***************************************************************************)
EXTENDS Integers, Sequences, FiniteSets, TLC

VARIABLES
    \* ---- codec pipeline (Message::parse -> try_from -> DeviceInfo::from)
    input,      \* the raw payload bytes handed to Message::parse
    stage,      \* "raw" | "parsed" | "decoded" | "transformed"
    message,    \* result of Message::parse
    record,     \* result of RawDeviceInfo::try_from
    info,       \* result of DeviceInfo::from
    \* ---- session and event loop
    slot,       \* watch channel: [value |-> Measurement, version |-> Nat]
    lpc,        \* DeviceLoop::run: "running" | "returned" | "panicked"
    loopResult, \* value returned by DeviceLoop::run: "none" | "Ok"
    disconnect, \* DeviceLoop.disconnect
    requests,   \* client -> event loop request channel (FIFO)
    clock,      \* SystemTime::now()
    published,  \* history: the measurements sent to the slot, in order
    lastEvent,  \* history: the last event DeviceLoop::run polled
    sawDisconnect, \* history: an Outgoing::Disconnect was polled
    alive,      \* per handle: the Device value exists
    rxVersion,  \* per handle: version last seen by its watch::Receiver
    dpc,        \* per handle: position inside device_info()/disconnect()
    wake,       \* per handle: what changed() returned: "none" | "Ok" | "Err"
    qresult,    \* per handle: the last device_info() call and its result
    nQueries,   \* device_info() calls started, over all handles
    options,    \* DeviceOptions: [ty, mac], shared by the clones of a Device
    returned    \* history, per handle: the snapshots its calls returned

codecVars == <<input, stage, message, record, info>>
loopVars == <<slot, lpc, loopResult, disconnect, requests, clock, published,
              lastEvent, sawDisconnect>>
deviceVars == <<alive, rxVersion, dpc, wake, qresult, nQueries, options,
                returned>>
vars == <<input, stage, message, record, info,
          slot, lpc, loopResult, disconnect, requests, clock, published,
          lastEvent, sawDisconnect,
          alive, rxVersion, dpc, wake, qresult, nQueries, options,
          returned>>

\* Option<T>: None is the empty sequence, Some(v) the one-element sequence
None == <<>>
Some(v) == <<v>>
IsNone(o) == Len(o) = 0
Unwrap(o) == o[1]

--------------------------------------------------------------------------
(* Text helpers: the parts of core::str the codec uses.                    *)

\* char::is_whitespace, restricted to the ASCII white space of the alphabet.
IsWhitespace(c) == c \in {" ", "\t", "\n", "\r"}

\* Bytes >= 0x80 of the alphabet: a two-byte lead, a continuation, and a
\* byte that occurs in no UTF-8 encoding.
Lead2 == {"xC3"}
Cont == {"xA9"}
NonAscii == Lead2 \cup Cont \cup {"xFF"}

\* std::str::from_utf8(..).is_ok()
RECURSIVE Utf8ValidFrom(_, _)
Utf8ValidFrom(b, i) ==
    IF i > Len(b) THEN TRUE
    ELSE IF b[i] \notin NonAscii THEN Utf8ValidFrom(b, i + 1)
    ELSE IF b[i] \in Lead2 /\ i + 1 <= Len(b) /\ b[i + 1] \in Cont
         THEN Utf8ValidFrom(b, i + 2)
    ELSE FALSE

Utf8Valid(b) == Utf8ValidFrom(b, 1)

\* str::trim_start / str::trim_end / str::trim
RECURSIVE TrimStart(_)
TrimStart(s) ==
    IF s # <<>> /\ IsWhitespace(Head(s)) THEN TrimStart(Tail(s)) ELSE s

RECURSIVE TrimEnd(_)
TrimEnd(s) ==
    IF s # <<>> /\ IsWhitespace(s[Len(s)])
    THEN TrimEnd(SubSeq(s, 1, Len(s) - 1)) ELSE s

Trim(s) == TrimEnd(TrimStart(s))

\* str::split(d): the segments between the occurrences of d, in order;
\* always at least one segment.  cur is the segment being scanned.
RECURSIVE SplitFrom(_, _, _, _)
SplitFrom(s, d, i, cur) ==
    IF i > Len(s) THEN <<cur>>
    ELSE IF s[i] = d THEN <<cur>> \o SplitFrom(s, d, i + 1, <<>>)
    ELSE SplitFrom(s, d, i + 1, Append(cur, s[i]))

Split(s, d) == SplitFrom(s, d, 1, <<>>)

\* str::find(d): index of the first d from i on, 0 when there is none
RECURSIVE FindFrom(_, _, _)
FindFrom(s, d, i) ==
    IF i > Len(s) THEN 0
    ELSE IF s[i] = d THEN i
    ELSE FindFrom(s, d, i + 1)

\* str::rfind(d): index of the last d, 0 when there is none
RECURSIVE RFindFrom(_, _, _)
RFindFrom(s, d, i) ==
    IF i < 1 THEN 0
    ELSE IF s[i] = d THEN i
    ELSE RFindFrom(s, d, i - 1)

\* str::rsplit_once(d)
RSplitOnce(s, d) ==
    LET p == RFindFrom(s, d, Len(s)) IN
    IF p = 0 THEN None
    ELSE Some(<<SubSeq(s, 1, p - 1), SubSeq(s, p + 1, Len(s))>>)

\* str::split_once(d): None, or Some(<<text before the first d, text after>>)
SplitOnce(s, d) ==
    LET p == FindFrom(s, d, 1) IN
    IF p = 0 THEN None
    ELSE Some(<<SubSeq(s, 1, p - 1), SubSeq(s, p + 1, Len(s))>>)

--------------------------------------------------------------------------
(* Message::parse                                                          *)

EmptyMap == [k \in {} |-> <<>>]

\* BTreeMap::insert: the new value replaces an older one for the same key
InsertKeepFirst(m, k, v) ==
    [x \in DOMAIN m \cup {k} |-> IF x \in DOMAIN m THEN m[x] ELSE v]

Insert(m, k, v) ==
    [x \in DOMAIN m \cup {k} |-> IF x = k THEN v ELSE m[x]]

InvalidFormat(raw) == [kind |-> "InvalidFormat", bytes |-> raw]

\* The "for part in ..." loop of Message::parse: i is the next segment,
\* payload the map built so far.
RECURSIVE ParseLoop(_, _, _, _)
ParseLoop(raw, parts, i, payload) ==
    IF i > Len(parts) THEN [ok |-> TRUE, payload |-> payload]
    ELSE LET kv == SplitOnce(parts[i], "=") IN
         IF IsNone(kv)
         THEN [ok |-> FALSE, err |-> InvalidFormat(raw)]
         ELSE ParseLoop(raw, parts, i + 1,
                        Insert(payload, Unwrap(kv)[1], Unwrap(kv)[2]))

\* The text the loop of Message::parse iterates over
NoTrim(text) == text

LoopText(text) == Trim(text)

MessageParseNoUtf8(raw) ==
    ParseLoop(raw, Split(LoopText(raw), ","), 1, EmptyMap)

MessageParse(raw) ==
    IF ~Utf8Valid(raw)
    THEN [ok |-> FALSE, err |-> InvalidFormat(raw)]
    ELSE ParseLoop(raw, Split(LoopText(raw), ","), 1, EmptyMap)

--------------------------------------------------------------------------
(* Numeric and Scene parsing: <T as FromStr>::from_str for the field types  *)
(* of RawDeviceInfo.  A result is [ok |-> TRUE, value |-> v] or             *)
(* [ok |-> FALSE, err |-> e].  A u32 is kept as two 16-bit limbs, so that   *)
(* its whole range 0 .. 2^32-1 is representable.                            *)

Ok(v) == [ok |-> TRUE, value |-> v]
Err(e) == [ok |-> FALSE, err |-> e]

DigitChars == <<"0", "1", "2", "3", "4", "5", "6", "7", "8", "9">>

IsDigit(c) == \E i \in 1..10 : DigitChars[i] = c

\* char::to_digit(10) of a decimal digit
ToDigit(c) == (CHOOSE i \in 1..10 : DigitChars[i] = c) - 1

\* The sign handling that opens from_str_radix
StripSign(s, signed) ==
    IF s = <<>> THEN Err("Empty")
    ELSE IF Head(s) \in {"+", "-"} /\ Len(s) = 1 THEN Err("InvalidDigit")
    ELSE IF Head(s) = "+" THEN Ok([positive |-> TRUE, digits |-> Tail(s)])
    ELSE IF Head(s) = "-" /\ signed
         THEN Ok([positive |-> FALSE, digits |-> Tail(s)])
    ELSE Ok([positive |-> TRUE, digits |-> s])

\* Accumulation of an unsigned value that fits 31 bits, with checked_mul and
\* checked_add against max
RECURSIVE AccUnsigned(_, _, _, _)
AccUnsigned(d, i, acc, max) ==
    IF i > Len(d) THEN Ok(acc)
    ELSE IF ~IsDigit(d[i]) THEN Err("InvalidDigit")
    ELSE IF acc > (max - ToDigit(d[i])) \div 10 THEN Err("PosOverflow")
    ELSE AccUnsigned(d, i + 1, acc * 10 + ToDigit(d[i]), max)

\* u8 with the arithmetic wrapping instead of checked
RECURSIVE AccWrapping(_, _, _, _)
AccWrapping(d, i, acc, max) ==
    IF i > Len(d) THEN Ok(acc)
    ELSE IF ~IsDigit(d[i]) THEN Err("InvalidDigit")
    ELSE AccWrapping(d, i + 1, (acc * 10 + ToDigit(d[i])) % (max + 1), max)

\* Accumulation of a u32 in limbs [hi, lo], each 0 .. 65535
RECURSIVE AccU32(_, _, _)
AccU32(d, i, acc) ==
    IF i > Len(d) THEN Ok(acc)
    ELSE IF ~IsDigit(d[i]) THEN Err("InvalidDigit")
    ELSE LET lo10 == acc.lo * 10 + ToDigit(d[i])
             hi10 == acc.hi * 10 + (lo10 \div 65536)
         IN IF hi10 > 65535 THEN Err("PosOverflow")
            ELSE AccU32(d, i + 1, [hi |-> hi10, lo |-> lo10 % 65536])

\* Accumulation of an i32: upwards for a positive text, downwards for a
\* negative one, each step checked against the range of i32
RECURSIVE AccI32(_, _, _, _)
AccI32(d, i, acc, positive) ==
    IF i > Len(d) THEN Ok(acc)
    ELSE IF ~IsDigit(d[i]) THEN Err("InvalidDigit")
    ELSE IF positive
    THEN IF acc > (2147483647 - ToDigit(d[i])) \div 10 THEN Err("PosOverflow")
         ELSE AccI32(d, i + 1, acc * 10 + ToDigit(d[i]), positive)
    ELSE IF acc < -214748364 \/ (acc = -214748364 /\ ToDigit(d[i]) > 8)
         THEN Err("NegOverflow")
         ELSE AccI32(d, i + 1, acc * 10 - ToDigit(d[i]), positive)

ParseU8Wrapping(s) ==
    LET sg == StripSign(s, FALSE) IN
    IF ~sg.ok THEN sg ELSE AccWrapping(sg.value.digits, 1, 0, 255)

\* u8::from_str
ParseU8(s) ==
    LET sg == StripSign(s, FALSE) IN
    IF ~sg.ok THEN sg ELSE AccUnsigned(sg.value.digits, 1, 0, 255)

\* u32::from_str
ParseU32(s) ==
    LET sg == StripSign(s, FALSE) IN
    IF ~sg.ok THEN sg ELSE AccU32(sg.value.digits, 1, [hi |-> 0, lo |-> 0])

\* i32::from_str
ParseI32(s) ==
    LET sg == StripSign(s, TRUE) IN
    IF ~sg.ok THEN sg
    ELSE AccI32(sg.value.digits, 1, 0, sg.value.positive)

\* A u32 below 2^31 as limbs
U32(n) == [hi |-> n \div 65536, lo |-> n % 65536]

\* impl_unit!: the wrapped numeric type of each unit
UnitType == [Watt |-> "u32", WattHours |-> "u32", Celsius |-> "i32",
             Percentage |-> "u8"]

\* A unit value: $name(pub $ty)
Unit(name, v) == [unit |-> name, value |-> v]

ParseNumber(ty, s) ==
    CASE ty = "u8" -> ParseU8(s)
      [] ty = "u32" -> ParseU32(s)
      [] ty = "i32" -> ParseI32(s)

\* impl_unit!: from_str is s.parse().map(Self)
UnitFromStr(name, s) ==
    LET r == ParseNumber(UnitType[name], s) IN
    IF r.ok THEN Ok(Unit(name, r.value)) ELSE r

\* Scene::from_str accepting any text that parses to the number 0, 1 or 2
SceneFromNumber(s) ==
    LET r == ParseU8(s) IN
    IF r.ok /\ r.value = 0 THEN Ok("Day")
    ELSE IF r.ok /\ r.value = 1 THEN Ok("Night")
    ELSE IF r.ok /\ r.value = 2 THEN Ok("Dusk")
    ELSE Err("InvalidSceneError")

\* impl FromStr for Scene
SceneFromStr(s) ==
    IF s = <<"0">> THEN Ok("Day")
    ELSE IF s = <<"1">> THEN Ok("Night")
    ELSE IF s = <<"2">> THEN Ok("Dusk")
    ELSE Err("InvalidSceneError")

\* value.parse::<T>() for a field type T of RawDeviceInfo
FromStr(ty, s) ==
    CASE ty = "u8" -> ParseU8(s)
      [] ty = "Scene" -> SceneFromStr(s)
      [] OTHER -> UnitFromStr(ty, s)

--------------------------------------------------------------------------
(* The raw field decoder: message! { struct RawDeviceInfo { .. } } and the  *)
(* TryFrom<&Message> it generates.                                          *)

\* The fields of RawDeviceInfo in declaration order: the struct field, the
\* text of stringify!($field) and the field type.
Fields == <<
    [name |-> "p1", ident |-> <<"p", "1">>, ty |-> "u8"],
    [name |-> "p2", ident |-> <<"p", "2">>, ty |-> "u8"],
    [name |-> "w1", ident |-> <<"w", "1">>, ty |-> "Watt"],
    [name |-> "w2", ident |-> <<"w", "2">>, ty |-> "Watt"],
    [name |-> "pe", ident |-> <<"p", "e">>, ty |-> "Percentage"],
    [name |-> "o1", ident |-> <<"o", "1">>, ty |-> "u8"],
    [name |-> "o2", ident |-> <<"o", "2">>, ty |-> "u8"],
    [name |-> "do", ident |-> <<"r", "#", "d", "o">>, ty |-> "Percentage"],
    [name |-> "lv", ident |-> <<"l", "v">>, ty |-> "Watt"],
    [name |-> "cj", ident |-> <<"c", "j">>, ty |-> "Scene"],
    [name |-> "kn", ident |-> <<"k", "n">>, ty |-> "WattHours"],
    [name |-> "g1", ident |-> <<"g", "1">>, ty |-> "Watt"],
    [name |-> "g2", ident |-> <<"g", "2">>, ty |-> "Watt"],
    [name |-> "tl", ident |-> <<"t", "l">>, ty |-> "Celsius"],
    [name |-> "th", ident |-> <<"t", "h">>, ty |-> "Celsius"],
    [name |-> "l0", ident |-> <<"l", "0">>, ty |-> "u8"] >>

\* str::starts_with
StartsWith(s, prefix) ==
    Len(s) >= Len(prefix) /\ SubSeq(s, 1, Len(prefix)) = prefix

KeepPrefix(s, prefix) == s

\* str::trim_start_matches(prefix): every leading repetition removed
RECURSIVE TrimStartMatches(_, _)
TrimStartMatches(s, prefix) ==
    IF prefix # <<>> /\ StartsWith(s, prefix)
    THEN TrimStartMatches(SubSeq(s, Len(prefix) + 1, Len(s)), prefix)
    ELSE s

\* The key looked up for field i, and named in its errors
FieldKey(i) == TrimStartMatches(Fields[i].ident, <<"r", "#">>)

InvalidField(field, cause) ==
    [kind |-> "InvalidField", field |-> field, cause |-> cause]

MissingField(field) == [kind |-> "MissingField", field |-> field]

\* Message::get_value::<T>(name): Result<Option<T>, T::Err>
GetValue(msg, name, ty) ==
    IF name \notin DOMAIN msg THEN Ok(None)
    ELSE LET r == FromStr(ty, msg[name]) IN
         IF r.ok THEN Ok(Some(r.value)) ELSE r

\* The struct expression of try_from, field by field from field i on; rec
\* holds the fields already evaluated.  Every field ends in "?".
RECURSIVE TryFromFields(_, _, _)
TryFromFields(msg, i, rec) ==
    IF i > Len(Fields) THEN Ok(rec)
    ELSE LET got == GetValue(msg, FieldKey(i), Fields[i].ty) IN
         IF ~got.ok THEN Err(InvalidField(FieldKey(i), got.err))
         ELSE IF IsNone(got.value) THEN Err(MissingField(FieldKey(i)))
         ELSE TryFromFields(msg, i + 1,
                            rec @@ (Fields[i].name :> Unwrap(got.value)))

\* try_from evaluating its fields last to first
RECURSIVE TryFromFieldsBackwards(_, _, _)
TryFromFieldsBackwards(msg, i, rec) ==
    IF i < 1 THEN Ok(rec)
    ELSE LET got == GetValue(msg, FieldKey(i), Fields[i].ty) IN
         IF ~got.ok THEN Err(InvalidField(FieldKey(i), got.err))
         ELSE IF IsNone(got.value) THEN Err(MissingField(FieldKey(i)))
         ELSE TryFromFieldsBackwards(msg, i - 1,
                            rec @@ (Fields[i].name :> Unwrap(got.value)))

TryFromBackwards(msg) == TryFromFieldsBackwards(msg, Len(Fields), <<>>)

\* try_from refusing a message with a key that is no field of the struct
TryFromStrict(msg) ==
    IF \E k \in DOMAIN msg : \A i \in DOMAIN Fields : k # FieldKey(i)
    THEN Err(InvalidField(<<"?">>, "UnknownField"))
    ELSE TryFromFields(msg, 1, <<>>)

\* RawDeviceInfo::try_from(&Message); msg is Message.payload
TryFrom(msg) == TryFromFields(msg, 1, <<>>)

--------------------------------------------------------------------------
(* Measurement and the domain transform DeviceInfo::from                    *)

UNIX_EPOCH == 0

\* Measurement::default()
MeasurementDefault == [time |-> UNIX_EPOCH, data |-> None]

\* Measurement::new(data) at SystemTime::now() = now
MeasurementNew(data, now) == [time |-> now, data |-> Some(data)]

BitShifted(value, bit) == (value \div (2 ^ (bit + 1))) % 2 = 1

\* bit! without the mask: (value >> bit) != 0
BitUnmasked(value, bit) == (value \div (2 ^ bit)) # 0

\* bit!(value, bit): (value >> bit) & 0b01 == 1
Bit(value, bit) == (value \div (2 ^ bit)) % 2 = 1

\* What a call that may panic produces
Panicked == [kind |-> "Panic"]
Returned(v) == [kind |-> "Value", value |-> v]

\* The struct expression of DeviceInfo::from for a present record
BuildDeviceInfo(timestamp, value) ==
    [timestamp |-> timestamp,
     solar1 |-> [charging |-> Bit(value.p1, 0),
                 pass_through |-> Bit(value.p1, 1),
                 power |-> value.w1],
     solar2 |-> [charging |-> Bit(value.p2, 0),
                 pass_through |-> Bit(value.p2, 1),
                 power |-> value.w2],
     output1 |-> [power |-> value.g1, active |-> Bit(value.o1, 0)],
     output2 |-> [power |-> value.g2, active |-> Bit(value.o2, 0)],
     temperature |-> [min |-> value.tl, max |-> value.th],
     battery |-> [charge |-> value.pe,
                  capacity |-> value.kn,
                  output_threshold |-> value.lv,
                  discharge_depth |-> value.do,
                  internal |-> [charging |-> Bit(value.l0, 0),
                                discharging |-> Bit(value.l0, 1),
                                discharge_depth |-> Bit(value.l0, 2),
                                undervoltage |-> Bit(value.l0, 3)]],
     scene |-> value.cj]

\* RawDeviceInfo with every field at its zero value
ZeroRecord ==
    [f \in {Fields[i].name : i \in DOMAIN Fields} |->
        LET ty == Fields[CHOOSE i \in DOMAIN Fields : Fields[i].name = f].ty
        IN
        CASE ty = "u8" -> 0
          [] ty = "Scene" -> "Day"
          [] ty \in {"Watt", "WattHours"} -> Unit(ty, U32(0))
          [] OTHER -> Unit(ty, 0)]

\* DeviceInfo::from with unwrap_or_default in place of expect
DeviceInfoFromOrDefault(m) ==
    IF IsNone(m.data) THEN Returned(BuildDeviceInfo(m.time, ZeroRecord))
    ELSE Returned(BuildDeviceInfo(m.time, Unwrap(m.data)))

\* DeviceInfo::from(&Measurement<RawDeviceInfo>): the expect("valid
\* measurement") panics on a measurement without data
DeviceInfoFrom(m) ==
    IF IsNone(m.data) THEN Panicked
    ELSE Returned(BuildDeviceInfo(m.time, Unwrap(m.data)))

--------------------------------------------------------------------------
(* Payloads.  Short payloads are up to MaxSegs segments of SegmentPool      *)
(* joined by ','.  Device payloads are the status payload of                *)
(* test_message_device_info, reduced to the fields RawDeviceInfo consumes,  *)
(* with some fields removed or given another text.                          *)

MaxSegs == 3
MaxEdits == 2
ByteMax == 255

SegmentPool == {
    <<>>,
    <<" ">>,
    <<"a">>,
    <<"=">>,
    <<"a", "=", "1">>,
    <<"a", "=", "2">>,
    <<"b", "=", "1">>,
    <<"a", "=", "1", "=", "2">>,
    <<" ", "a", "=", "1">>,
    <<"a", "=", "1", "\n">>,
    <<"a", "=", "xC3", "xA9">>,
    <<"a", "=", "xFF">> }

RECURSIVE Join(_, _)
Join(segs, d) ==
    IF Len(segs) = 0 THEN <<>>
    ELSE IF Len(segs) = 1 THEN segs[1]
    ELSE segs[1] \o <<d>> \o Join(Tail(segs), d)

ShortPayloads ==
    {Join(segs, ",") :
        segs \in UNION {[1..n -> SegmentPool] : n \in 0..MaxSegs}}

\* The values of the consumed fields in the payload of
\* test_message_device_info, in the order of Fields
BaseValues == <<
    <<"1">>, <<"1">>, <<"2", "3">>, <<"2", "3">>, <<"9", "9">>,
    <<"1">>, <<"1">>, <<"8", "0">>, <<"2", "0", "0">>, <<"2">>,
    <<"2", "2", "1", "7">>, <<"1">>, <<"0">>, <<"2", "7">>, <<"2", "7">>,
    <<"1">> >>

\* The key a field has on the wire
WireKey(i) == IF Fields[i].name = "do" THEN <<"d", "o">> ELSE Fields[i].ident

\* The payload holding field i with text vals[i] for every i in present
RECURSIVE RenderFrom(_, _, _)
RenderFrom(vals, present, i) ==
    IF i > Len(Fields) THEN <<>>
    ELSE IF i \notin present THEN RenderFrom(vals, present, i + 1)
    ELSE LET rest == RenderFrom(vals, present, i + 1) IN
         WireKey(i) \o <<"=">> \o vals[i]
            \o (IF rest = <<>> THEN <<>> ELSE <<",">> \o rest)

Render(vals, present) == RenderFrom(vals, present, 1)

FieldIndex == 1..Len(Fields)

BasePayload == Render(BaseValues, FieldIndex)

\* Up to MaxEdits fields either removed ("drop") or made unparsable ("bad")
BadText == <<"x">>

FaultPayloads ==
    {Render([i \in FieldIndex |->
                 IF i \in DOMAIN f /\ f[i] = "bad" THEN BadText
                 ELSE BaseValues[i]],
            {i \in FieldIndex : ~(i \in DOMAIN f /\ f[i] = "drop")}) :
        f \in UNION {[S -> {"drop", "bad"}] :
                        S \in {T \in SUBSET FieldIndex :
                                  Cardinality(T) <= MaxEdits}}}

\* Texts a single field is given: numerals at and around the edges of the
\* numeric types, signs, leading zeros, white space, the scene codes
TextPool == {
    <<>>, <<"0">>, <<"1">>, <<"2">>, <<"3">>, <<"0", "2">>, <<" ", "1">>,
    <<"+", "7">>, <<"-", "1">>, <<"-", "0">>, <<"+">>, <<"-">>,
    <<"1", "0", "1">>, <<"2", "5", "5">>, <<"2", "5", "6">>,
    <<"4", "2", "9", "4", "9", "6", "7", "2", "9", "5">>,
    <<"4", "2", "9", "4", "9", "6", "7", "2", "9", "6">>,
    <<"2", "1", "4", "7", "4", "8", "3", "6", "4", "7">>,
    <<"2", "1", "4", "7", "4", "8", "3", "6", "4", "8">>,
    <<"-", "2", "1", "4", "7", "4", "8", "3", "6", "4", "8">>,
    <<"-", "2", "1", "4", "7", "4", "8", "3", "6", "4", "9">>,
    <<"1", "2", "a">> }

TextPayloads ==
    {Render([BaseValues EXCEPT ![i] = t], FieldIndex) :
        i \in FieldIndex, t \in TextPool}

\* The decimal text of a natural number
RECURSIVE Decimal(_)
Decimal(n) ==
    IF n < 10 THEN <<DigitChars[n + 1]>>
    ELSE Append(Decimal(n \div 10), DigitChars[(n % 10) + 1])

StatusFields == {i \in FieldIndex : Fields[i].ty = "u8"}

\* One status byte given every value of a byte
BytePayloads ==
    {Render([BaseValues EXCEPT ![i] = Decimal(n)], FieldIndex) :
        i \in StatusFields, n \in 0..ByteMax}

\* Segments of the status payload that RawDeviceInfo has no field for, and
\* one whose key only starts like a field
ExtraSegments == {
    <<"v", "v", "=", "2", "2", "0">>,
    <<"e", "1", "=", "0", ":", "0">>,
    <<"l", "m", "f", "=", "1">>,
    <<"p", "1", "0", "=", "9">> }

\* Device payloads, whole or with one field missing or bad, with one such
\* segment ahead of the fields or after them
ExtraPayloads ==
    {IF front THEN seg \o <<",">> \o p ELSE p \o <<",">> \o seg :
        front \in BOOLEAN, seg \in ExtraSegments,
        p \in {BasePayload}
              \cup {Render(BaseValues, FieldIndex \ {i}) : i \in FieldIndex}
              \cup {Render([BaseValues EXCEPT ![i] = BadText], FieldIndex) :
                        i \in FieldIndex}}

Payloads == ShortPayloads \cup FaultPayloads \cup TextPayloads
                \cup BytePayloads \cup ExtraPayloads

--------------------------------------------------------------------------
(* The codec pipeline as a state machine: one payload is parsed, decoded    *)
(* and transformed, one call per step.                                      *)

Unset == [ok |-> FALSE, err |-> "unset"]

DoParse ==
    /\ stage = "raw"
    /\ message' = MessageParse(input)
    /\ stage' = "parsed"
    /\ UNCHANGED <<input, record, info>>

DoDecode ==
    /\ stage = "parsed"
    /\ message.ok
    /\ record' = TryFrom(message.payload)
    /\ stage' = "decoded"
    /\ UNCHANGED <<input, message, info>>

DoTransform ==
    /\ stage = "decoded"
    /\ record.ok
    /\ info' = DeviceInfoFrom(MeasurementNew(record.value, clock))
    /\ stage' = "transformed"
    /\ UNCHANGED <<input, message, record>>

--------------------------------------------------------------------------
(* Device and DeviceLoop.  The watch channel is its value and its version;  *)
(* each Receiver keeps the version it has seen.  The sender lives as long   *)
(* as DeviceLoop::run has neither returned nor panicked, and so does the    *)
(* receiving end of the client's request channel: run(mut self) owns both,  *)
(* and what is still queued is dropped with them.                           *)

MaxPublishes == 2
MaxQueries == 2
RequestCap == 10

\* "d1" is the Device that Device::new returns, "d2" a clone of it
Handles == {"d1", "d2"}

\* Device identities: DeviceOptions { ty, mac }
DeviceTypes == {"HMA-1", "HMB-2"}
DeviceMacs == {"aabbcc", "ddeeff"}
Identities == [ty : DeviceTypes, mac : DeviceMacs]
DefaultOptions == [ty |-> "HMA-1", mac |-> "aabbcc"]

\* format!("hame_energy/{}/device/{}/ctrl", self.ty, self.mac)
DataTopic(o) == "hame_energy/" \o o.ty \o "/device/" \o o.mac \o "/ctrl"

\* The control topic with "App" ahead of the device type
ControlTopicAppFirst(o) ==
    "hame_energy/App/" \o o.ty \o "/" \o o.mac \o "/ctrl"

\* format!("hame_energy/{}/App/{}/ctrl", self.ty, self.mac)
ControlTopic(o) == "hame_energy/" \o o.ty \o "/App/" \o o.mac \o "/ctrl"

\* A topic the broker may deliver on that is not the data topic
OtherTopic == "other"
Topics(o) == {DataTopic(o), OtherTopic}

\* Requests of the client to the event loop
SubscribeRequest(topic, qos) ==
    [kind |-> "Subscribe", topic |-> topic, qos |-> qos, retain |-> FALSE,
     payload |-> ""]
PublishRequest(topic, qos, retain, payload) ==
    [kind |-> "Publish", topic |-> topic, qos |-> qos, retain |-> retain,
     payload |-> payload]
DisconnectRequest ==
    [kind |-> "Disconnect", topic |-> "", qos |-> "", retain |-> FALSE,
     payload |-> ""]

\* Status payloads the broker delivers: two that decode, one without '=',
\* one that lacks l0.  The device reports the two that decode in turn, so
\* that consecutive snapshots differ in their data.
AltPayload ==
    Render([BaseValues EXCEPT ![1] = <<"2">>, ![5] = <<"5", "0">>],
           FieldIndex)
BadPayloads == {<<"a">>, Render(BaseValues, FieldIndex \ {Len(Fields)})}
LoopPayloads == {BasePayload, AltPayload} \cup BadPayloads
PayloadsAt(n) ==
    {IF n % 2 = 0 THEN BasePayload ELSE AltPayload} \cup BadPayloads

\* rumqttc events, as far as DeviceLoop::run tells them apart
Event(type, what, topic) == [type |-> type, what |-> what, topic |-> topic]
AbortError == Event("Err", "MqttState(Io(ConnectionAborted))", "")

\* History: the record of a polled event.  early marks an abort error that
\* was polled after Device::disconnect() had completed and before the loop
\* had taken its request.
Seen(ev, early) ==
    [type |-> ev.type, what |-> ev.what, topic |-> ev.topic, early |-> early]
OtherErrors == {Event("Err", "MqttState(Io(ConnectionReset))", ""),
                Event("Err", "Io(ConnectionAborted)", "")}
OtherIncoming == {"ConnAck"}

\* Device::disconnect() has completed and its request is still in the channel
DisconnectQueued ==
    \E i \in 1..Len(requests) : requests[i] = DisconnectRequest

SenderAlive == lpc = "running"
\* The receivers counted whether or not their Device still exists
ReceiverCountAll == Cardinality(Handles)

\* watch::Sender::send fails when no Receiver is left
ReceiverCount == Cardinality({h \in Handles : alive[h]})

\* watch::Sender::send storing the first value only, later sends bumping
\* the version over it
SendKeepFirst(s, m) ==
    [value |-> IF s.version = 0 THEN m ELSE s.value,
     version |-> s.version + 1]

\* watch::Sender::send replacing the value without a new version, so that
\* no Receiver is notified
SendSilently(s, m) == [value |-> m, version |-> s.version]

\* watch::Sender::send with a receiver left: the value is replaced and the
\* version bumped
Send(s, m) == [value |-> m, version |-> s.version + 1]

\* The Publish arm with unwrap_or_default in place of both unwrap() calls
DecodeOrZero(payload) ==
    LET msg == MessageParse(payload) IN
    IF ~msg.ok THEN Returned(ZeroRecord)
    ELSE LET rec == TryFrom(msg.payload) IN
         IF ~rec.ok THEN Returned(ZeroRecord) ELSE Returned(rec.value)

\* The Publish arm up to the send: both unwrap() calls
DecodeOrPanic(payload) ==
    LET msg == MessageParse(payload) IN
    IF ~msg.ok THEN Panicked
    ELSE LET rec == TryFrom(msg.payload) IN
         IF ~rec.ok THEN Panicked ELSE Returned(rec.value)

\* The outcome of the decode for each payload the broker delivers
LoopDecode == [p \in LoopPayloads |-> DecodeOrPanic(p)]

\* The guard of the first Err arm
IsDisconnectAbortAnyState(err, flag) == err = AbortError

IsDisconnectAbort(err, flag) == err = AbortError /\ flag

\* self.disconnect after the Outgoing::Disconnect arm
FlagUnchanged(flag) == flag

FlagAfterDisconnect(flag) == TRUE

Polled(ev) ==
    /\ lpc = "running"
    /\ lastEvent' = Seen(ev, ev = AbortError /\ DisconnectQueued)

\* Ok(Event::Incoming(Packet::Publish(message)))
LoopIncomingPublish(topic, payload) ==
    /\ Polled(Event("Incoming", "Publish", topic))
    /\ Len(published) < MaxPublishes
    /\ LET got == LoopDecode[payload]
           m == MeasurementNew(got.value, clock + 1)
       IN IF got.kind = "Panic"
          THEN /\ lpc' = "panicked"
               /\ requests' = <<>>
               /\ UNCHANGED <<slot, loopResult, clock, published>>
          ELSE IF ReceiverCount = 0
          THEN /\ lpc' = "returned"
               /\ loopResult' = "Ok"
               /\ requests' = <<>>
               /\ clock' = clock + 1
               /\ UNCHANGED <<slot, published>>
          ELSE /\ slot' = Send(slot, m)
               /\ published' = Append(published, m)
               /\ clock' = clock + 1
               /\ UNCHANGED <<lpc, loopResult, requests>>
    /\ UNCHANGED <<disconnect, sawDisconnect>>
    /\ UNCHANGED deviceVars
    /\ UNCHANGED codecVars

\* Ok(Event::Incoming(packet)) for any other packet
LoopIncomingOther(packet) ==
    /\ Polled(Event("Incoming", packet, ""))
    /\ UNCHANGED <<slot, lpc, loopResult, disconnect, requests, clock,
                   published, sawDisconnect>>
    /\ UNCHANGED deviceVars
    /\ UNCHANGED codecVars

\* Ok(Event::Outgoing(Outgoing::Disconnect)): the event loop has taken the
\* client's Disconnect request
LoopOutgoingDisconnect ==
    /\ requests # <<>>
    /\ Head(requests) = DisconnectRequest
    /\ Polled(Event("Outgoing", "Disconnect", ""))
    /\ requests' = Tail(requests)
    /\ disconnect' = FlagAfterDisconnect(disconnect)
    /\ sawDisconnect' = TRUE
    /\ UNCHANGED <<slot, lpc, loopResult, clock, published>>
    /\ UNCHANGED deviceVars
    /\ UNCHANGED codecVars

\* The Outgoing arm taking every notification for a Disconnect
LoopOutgoingOtherSetsFlag ==
    /\ requests # <<>>
    /\ Head(requests) # DisconnectRequest
    /\ Polled(Event("Outgoing", Head(requests).kind, ""))
    /\ requests' = Tail(requests)
    /\ disconnect' = TRUE
    /\ UNCHANGED <<slot, lpc, loopResult, clock, published, sawDisconnect>>
    /\ UNCHANGED deviceVars
    /\ UNCHANGED codecVars

\* Ok(Event::Outgoing(out)) for the client's other requests
LoopOutgoingOther ==
    /\ requests # <<>>
    /\ Head(requests) # DisconnectRequest
    /\ Polled(Event("Outgoing", Head(requests).kind, ""))
    /\ requests' = Tail(requests)
    /\ UNCHANGED <<slot, lpc, loopResult, disconnect, clock, published,
                   sawDisconnect>>
    /\ UNCHANGED deviceVars
    /\ UNCHANGED codecVars

\* Err(..): the guarded arm returns Ok(()), the other one logs
LoopError(err) ==
    /\ Polled(err)
    /\ IF IsDisconnectAbort(err, disconnect)
       THEN /\ lpc' = "returned"
            /\ loopResult' = "Ok"
            /\ requests' = <<>>
       ELSE UNCHANGED <<lpc, loopResult, requests>>
    /\ UNCHANGED <<slot, disconnect, clock, published, sawDisconnect>>
    /\ UNCHANGED deviceVars
    /\ UNCHANGED codecVars

--------------------------------------------------------------------------
(* Device: device_info() is three steps, the publish of the refresh         *)
(* request, the return of changed().await and borrow_and_update() with the  *)
(* transform.  The event loop runs as a task of its own, so its steps may   *)
(* fall between any two of them.                                            *)

\* A call of device_info(): kind is "none" before the first call,
\* "pending" until the call ends and then "Ok", "Err" or "Panic"; info is
\* the snapshot returned; wake is what changed() returned; issuedAt and
\* readAt are the numbers of snapshots published when the refresh request
\* was sent and, for "Ok", when the slot was read.
QueryResult(kind, i, w, issued, read) ==
    [kind |-> kind, info |-> i, wake |-> w, issuedAt |-> issued,
     readAt |-> read]

\* History: a completed device_info() call that returned the at-th
\* published snapshot, and whether the event loop was alive at that time
Completion(at, live) == [at |-> at, loopAlive |-> live]

NoResult == QueryResult("none", None, "none", 0, 0)

\* What device_info() makes of the outcome of changed(): the code drops it
\* ("let _ ="), so the slot is read and transformed either way
AfterChangedPropagating(w, m) ==
    IF w = "Err" THEN [kind |-> "Err"] ELSE DeviceInfoFrom(m)

AfterChanged(w, m) == DeviceInfoFrom(m)

\* device_info() with "let _ =" on the publish in place of "?": it goes on
\* to wait whether or not the request was taken
QueryPublishUnchecked(h) ==
    /\ alive[h]
    /\ dpc[h] = "idle"
    /\ nQueries < MaxQueries
    /\ nQueries' = nQueries + 1
    /\ IF lpc # "running"
       THEN UNCHANGED requests
       ELSE /\ Len(requests) < RequestCap
            /\ requests' = Append(requests,
                  PublishRequest(ControlTopic(options), "AtLeastOnce",
                                 FALSE, "cd=1"))
    /\ dpc' = [dpc EXCEPT ![h] = "waiting"]
    /\ qresult' = [qresult EXCEPT ![h] =
          QueryResult("pending", None, "none", Len(published), 0)]
    /\ UNCHANGED <<alive, rxVersion, wake, options, returned>>
    /\ UNCHANGED <<slot, lpc, loopResult, disconnect, clock, published,
                   lastEvent, sawDisconnect>>
    /\ UNCHANGED codecVars

\* self.client.publish(control_topic, AtLeastOnce, false, "cd=1").await?
QueryPublish(h) ==
    /\ alive[h]
    /\ dpc[h] = "idle"
    /\ nQueries < MaxQueries
    /\ nQueries' = nQueries + 1
    /\ IF lpc # "running"
       THEN /\ qresult' = [qresult EXCEPT ![h] =
                  QueryResult("Err", None, "none", Len(published), 0)]
            /\ UNCHANGED <<requests, dpc>>
       ELSE /\ Len(requests) < RequestCap
            /\ requests' = Append(requests,
                  PublishRequest(ControlTopic(options), "AtLeastOnce",
                                 FALSE, "cd=1"))
            /\ dpc' = [dpc EXCEPT ![h] = "waiting"]
            /\ qresult' = [qresult EXCEPT ![h] =
                  QueryResult("pending", None, "none", Len(published), 0)]
    /\ UNCHANGED <<alive, rxVersion, wake, options, returned>>
    /\ UNCHANGED <<slot, lpc, loopResult, disconnect, clock, published,
                   lastEvent, sawDisconnect>>
    /\ UNCHANGED codecVars

\* changed() on a Receiver that the clones of a Device share: the change
\* one handle wakes on is marked as seen for all of them
QueryChangedShared(h) ==
    /\ alive[h]
    /\ dpc[h] = "waiting"
    /\ \/ /\ slot.version # rxVersion[h]
          /\ rxVersion' = [g \in Handles |-> slot.version]
          /\ wake' = [wake EXCEPT ![h] = "Ok"]
       \/ /\ slot.version = rxVersion[h]
          /\ ~SenderAlive
          /\ wake' = [wake EXCEPT ![h] = "Err"]
          /\ UNCHANGED rxVersion
    /\ dpc' = [dpc EXCEPT ![h] = "woken"]
    /\ UNCHANGED <<alive, qresult, nQueries, options, returned>>
    /\ UNCHANGED loopVars
    /\ UNCHANGED codecVars

\* let _ = self.device_info.changed().await: returns Ok once the version
\* differs from the one seen, Err once the sender is gone, and waits
\* otherwise
QueryChanged(h) ==
    /\ alive[h]
    /\ dpc[h] = "waiting"
    /\ \/ /\ slot.version # rxVersion[h]
          /\ rxVersion' = [rxVersion EXCEPT ![h] = slot.version]
          /\ wake' = [wake EXCEPT ![h] = "Ok"]
       \/ /\ slot.version = rxVersion[h]
          /\ ~SenderAlive
          /\ wake' = [wake EXCEPT ![h] = "Err"]
          /\ UNCHANGED rxVersion
    /\ dpc' = [dpc EXCEPT ![h] = "woken"]
    /\ UNCHANGED <<alive, qresult, nQueries, options, returned>>
    /\ UNCHANGED loopVars
    /\ UNCHANGED codecVars

\* device_info() reading the slot with borrow() in place of
\* borrow_and_update(): the value returned is not marked as seen
QueryBorrowNoUpdate(h) ==
    /\ alive[h]
    /\ dpc[h] = "woken"
    /\ LET r == AfterChanged(wake[h], slot.value) IN
       IF r.kind = "Panic"
       THEN /\ qresult' = [qresult EXCEPT ![h] =
                  QueryResult("Panic", None, wake[h],
                              qresult[h].issuedAt, 0)]
            /\ dpc' = [dpc EXCEPT ![h] = "panicked"]
            /\ alive' = [alive EXCEPT ![h] = FALSE]
            /\ rxVersion' = [rxVersion EXCEPT ![h] = 0]
            /\ UNCHANGED returned
       ELSE /\ qresult' = [qresult EXCEPT ![h] =
                  QueryResult("Ok", Some(r.value), wake[h],
                              qresult[h].issuedAt, Len(published))]
            /\ dpc' = [dpc EXCEPT ![h] = "idle"]
            /\ returned' = [returned EXCEPT ![h] =
                  Append(@, Completion(Len(published), SenderAlive))]
            /\ UNCHANGED <<alive, rxVersion>>
    /\ wake' = [wake EXCEPT ![h] = "none"]
    /\ UNCHANGED <<nQueries, options>>
    /\ UNCHANGED loopVars
    /\ UNCHANGED codecVars

\* let value = self.device_info.borrow_and_update();
\* Ok(DeviceInfo::from(&*value))
QueryBorrow(h) ==
    /\ alive[h]
    /\ dpc[h] = "woken"
    /\ LET r == AfterChanged(wake[h], slot.value) IN
       IF r.kind = "Panic"
       THEN /\ qresult' = [qresult EXCEPT ![h] =
                  QueryResult("Panic", None, wake[h],
                              qresult[h].issuedAt, 0)]
            /\ dpc' = [dpc EXCEPT ![h] = "panicked"]
            /\ alive' = [alive EXCEPT ![h] = FALSE]
            /\ rxVersion' = [rxVersion EXCEPT ![h] = 0]
            /\ UNCHANGED returned
       ELSE IF r.kind = "Err"
       THEN /\ qresult' = [qresult EXCEPT ![h] =
                  QueryResult("Err", None, wake[h],
                              qresult[h].issuedAt, 0)]
            /\ dpc' = [dpc EXCEPT ![h] = "idle"]
            /\ rxVersion' = [rxVersion EXCEPT ![h] = slot.version]
            /\ UNCHANGED <<alive, returned>>
       ELSE /\ qresult' = [qresult EXCEPT ![h] =
                  QueryResult("Ok", Some(r.value), wake[h],
                              qresult[h].issuedAt, Len(published))]
            /\ dpc' = [dpc EXCEPT ![h] = "idle"]
            /\ rxVersion' = [rxVersion EXCEPT ![h] = slot.version]
            /\ returned' = [returned EXCEPT ![h] =
                  Append(@, Completion(Len(published), SenderAlive))]
            /\ UNCHANGED alive
    /\ wake' = [wake EXCEPT ![h] = "none"]
    /\ UNCHANGED <<nQueries, options>>
    /\ UNCHANGED loopVars
    /\ UNCHANGED codecVars

\* Device::disconnect raising the loop's flag itself, without waiting for
\* the loop to see the request
DisconnectSetsFlag(h) ==
    /\ alive[h]
    /\ dpc[h] = "idle"
    /\ IF lpc # "running"
       THEN UNCHANGED requests
       ELSE /\ Len(requests) < RequestCap
            /\ requests' = Append(requests, DisconnectRequest)
    /\ dpc' = [dpc EXCEPT ![h] = "disconnected"]
    /\ disconnect' = TRUE
    /\ UNCHANGED <<alive, rxVersion, wake, qresult, nQueries, options,
                   returned>>
    /\ UNCHANGED <<slot, lpc, loopResult, clock, published, lastEvent,
                   sawDisconnect>>
    /\ UNCHANGED codecVars

\* Device::disconnect: self.client.disconnect().await?
Disconnect(h) ==
    /\ alive[h]
    /\ dpc[h] = "idle"
    /\ IF lpc # "running"
       THEN UNCHANGED requests
       ELSE /\ Len(requests) < RequestCap
            /\ requests' = Append(requests, DisconnectRequest)
    /\ dpc' = [dpc EXCEPT ![h] = "disconnected"]
    /\ UNCHANGED <<alive, rxVersion, wake, qresult, nQueries, options,
                   returned>>
    /\ UNCHANGED <<slot, lpc, loopResult, disconnect, clock, published,
                   lastEvent, sawDisconnect>>
    /\ UNCHANGED codecVars

\* #[derive(Clone)]: the clone's Receiver starts at the version seen by h
Clone(h, g) ==
    /\ alive[h]
    /\ dpc[h] = "idle"
    /\ dpc[g] = "unborn"
    /\ alive' = [alive EXCEPT ![g] = TRUE]
    /\ dpc' = [dpc EXCEPT ![g] = "idle"]
    /\ rxVersion' = [rxVersion EXCEPT ![g] = rxVersion[h]]
    /\ UNCHANGED <<wake, qresult, nQueries, options, returned>>
    /\ UNCHANGED loopVars
    /\ UNCHANGED codecVars

\* The Device value goes out of scope, and its Receiver and the result it
\* last returned with it
Drop(h) ==
    /\ alive[h]
    /\ dpc[h] \in {"idle", "disconnected"}
    /\ alive' = [alive EXCEPT ![h] = FALSE]
    /\ dpc' = [dpc EXCEPT ![h] = "dropped"]
    /\ rxVersion' = [rxVersion EXCEPT ![h] = 0]
    /\ qresult' = [qresult EXCEPT ![h] = NoResult]
    /\ returned' = [returned EXCEPT ![h] = <<>>]
    /\ UNCHANGED <<wake, nQueries, options>>
    /\ UNCHANGED loopVars
    /\ UNCHANGED codecVars

--------------------------------------------------------------------------
(* Specifications                                                          *)

\* Device::new: the initial subscribe is queued, the slot holds
\* Measurement::default(), the loop has not seen a disconnect
InitSession(device) ==
    /\ options = device
    /\ slot = [value |-> MeasurementDefault, version |-> 0]
    /\ lpc = "running"
    /\ loopResult = "none"
    /\ disconnect = FALSE
    /\ requests = <<SubscribeRequest(DataTopic(device), "AtMostOnce")>>
    /\ clock = 0
    /\ published = <<>>
    /\ lastEvent = Seen(Event("none", "", ""), FALSE)
    /\ sawDisconnect = FALSE
    /\ alive = [h \in Handles |-> h = "d1"]
    /\ rxVersion = [h \in Handles |-> 0]
    /\ dpc = [h \in Handles |-> IF h = "d1" THEN "idle" ELSE "unborn"]
    /\ wake = [h \in Handles |-> "none"]
    /\ qresult = [h \in Handles |-> NoResult]
    /\ nQueries = 0
    /\ returned = [h \in Handles |-> <<>>]

InitPipeline ==
    /\ stage = "raw"
    /\ message = Unset
    /\ record = Unset
    /\ info = Panicked

\* The session and the event loop; the pipeline is not run
Init ==
    /\ InitSession(DefaultOptions)
    /\ InitPipeline
    /\ input = <<>>

Next ==
    \/ \E t \in Topics(options), p \in PayloadsAt(Len(published)) :
            LoopIncomingPublish(t, p)
    \/ \E packet \in OtherIncoming : LoopIncomingOther(packet)
    \/ LoopOutgoingDisconnect
    \/ LoopOutgoingOther
    \/ \E err \in {AbortError} \cup OtherErrors : LoopError(err)
    \/ \E h \in Handles : QueryPublish(h)
    \/ \E h \in Handles : QueryChanged(h)
    \/ \E h \in Handles : QueryBorrow(h)
    \/ \E h \in Handles : Disconnect(h)
    \/ \E h \in Handles : Clone("d1", h)
    \/ \E h \in Handles : Drop(h)

Spec == Init /\ [][Next]_vars

\* The session and the event loop under fair scheduling: a device_info()
\* call whose changed() can return does return, and goes on to read the
\* slot.  What the broker delivers on the data topic, and when, is left
\* open, and so is whether the connection is aborted.
Fairness ==
    /\ \A h \in Handles : WF_vars(QueryChanged(h))
    /\ \A h \in Handles : WF_vars(QueryBorrow(h))

NextFair ==
    \/ \E p \in PayloadsAt(Len(published)) :
            LoopIncomingPublish(DataTopic(options), p)
    \/ LoopOutgoingDisconnect
    \/ LoopOutgoingOther
    \/ LoopError(AbortError)
    \/ \E h \in Handles : QueryPublish(h)
    \/ \E h \in Handles : QueryChanged(h)
    \/ \E h \in Handles : QueryBorrow(h)
    \/ \E h \in Handles : Disconnect(h)
    \/ \E h \in Handles : Clone("d1", h)
    \/ \E h \in Handles : Drop(h)

SpecFair == Init /\ [][NextFair]_vars /\ Fairness

\* The codec pipeline on one payload; the session is not run
InitCodec ==
    /\ InitSession(DefaultOptions)
    /\ InitPipeline
    /\ input \in Payloads

NextCodec ==
    \/ (DoParse /\ UNCHANGED loopVars /\ UNCHANGED deviceVars)
    \/ (DoDecode /\ UNCHANGED loopVars /\ UNCHANGED deviceVars)
    \/ (DoTransform /\ UNCHANGED loopVars /\ UNCHANGED deviceVars)

SpecCodec == InitCodec /\ [][NextCodec]_vars

\* The session of a device of any identity, with a broker that delivers
\* well-formed status payloads on the data topic
InitTopics ==
    /\ \E device \in Identities : InitSession(device)
    /\ InitPipeline
    /\ input = <<>>

NextTopics ==
    \/ LoopIncomingPublish(DataTopic(options),
                           IF Len(published) % 2 = 0 THEN BasePayload
                           ELSE AltPayload)
    \/ LoopOutgoingOther
    \/ \E h \in Handles : QueryPublish(h)
    \/ \E h \in Handles : QueryChanged(h)
    \/ \E h \in Handles : QueryBorrow(h)
    \/ \E h \in Handles : Clone("d1", h)
    \/ \E h \in Handles : Drop(h)

SpecTopics == InitTopics /\ [][NextTopics]_vars

--------------------------------------------------------------------------
(* Properties of the session and the event loop, checked under Spec         *)

\* The snapshot info carries every field of measurement m and nothing else:
\* numbers, scene and time as they are, each flag the named bit
IsSnapshotOf(i, m) ==
    LET d == Unwrap(m.data) IN
    /\ i.timestamp = m.time
    /\ i.solar1.power = d.w1 /\ i.solar2.power = d.w2
    /\ i.output1.power = d.g1 /\ i.output2.power = d.g2
    /\ i.temperature.min = d.tl /\ i.temperature.max = d.th
    /\ i.battery.charge = d.pe /\ i.battery.capacity = d.kn
    /\ i.battery.output_threshold = d.lv
    /\ i.battery.discharge_depth = d.do
    /\ i.scene = d.cj
    /\ i.solar1.charging = (d.p1 % 2 = 1)
    /\ i.solar1.pass_through = ((d.p1 \div 2) % 2 = 1)
    /\ i.solar2.charging = (d.p2 % 2 = 1)
    /\ i.solar2.pass_through = ((d.p2 \div 2) % 2 = 1)
    /\ i.output1.active = (d.o1 % 2 = 1)
    /\ i.output2.active = (d.o2 % 2 = 1)
    /\ i.battery.internal.charging = (d.l0 % 2 = 1)
    /\ i.battery.internal.discharging = ((d.l0 \div 2) % 2 = 1)
    /\ i.battery.internal.discharge_depth = ((d.l0 \div 4) % 2 = 1)
    /\ i.battery.internal.undervoltage = ((d.l0 \div 8) % 2 = 1)

IsAbort(ev) == ev.type = "Err" /\ ev.what = AbortError.what

\* C1: a device_info() call whose changed() ended because the event loop
\* was gone before a new snapshot arrived returns an error value: not a
\* snapshot, not a panic.
C1_ClosedQueryFails ==
    \A h \in Handles :
        qresult[h].wake = "Err" => qresult[h].kind = "Err"

\* C2 as claimed: once two snapshots have been published after a query's
\* refresh request, the snapshot the query returned is the second of them.
C2_ReturnsSecond ==
    \A h \in Handles :
        (qresult[h].kind = "Ok"
            /\ Len(published) = qresult[h].issuedAt + 2)
        => IsSnapshotOf(Unwrap(qresult[h].info),
                        published[qresult[h].issuedAt + 2])

\* C2 as amended: a query returns the snapshot that is the latest published
\* when it reads the slot; it returns the second of two snapshots published
\* after its refresh request when both were published before that read.
C2_ReturnsLatestAtRead ==
    \A h \in Handles :
        qresult[h].kind = "Ok"
        => /\ qresult[h].readAt >= 1
           /\ IsSnapshotOf(Unwrap(qresult[h].info),
                           published[qresult[h].readAt])
           /\ qresult[h].readAt >= qresult[h].issuedAt

\* C2 witness: a query that read the slot after both publishes and returned
\* the second
C2_Witness ==
    \E h \in Handles :
        /\ qresult[h].kind = "Ok"
        /\ qresult[h].wake = "Ok"
        /\ qresult[h].readAt = qresult[h].issuedAt + 2
        /\ IsSnapshotOf(Unwrap(qresult[h].info),
                        published[qresult[h].issuedAt + 2])

\* C3 as claimed: an abort error polled after Device::disconnect() has
\* completed ends the loop with Ok(()), whether or not the loop has polled
\* the Outgoing::Disconnect notification before it.
C3_AbortAfterDisconnectEnds ==
    (IsAbort(lastEvent) /\ (lastEvent.early \/ sawDisconnect))
    => (lpc = "returned" /\ loopResult = "Ok")

\* C3 as amended: an abort error polled after the Outgoing::Disconnect
\* notification ends the loop with Ok(()); an abort error polled before the
\* notification leaves the loop running.
C3_AbortAfterNoticeEnds ==
    /\ (IsAbort(lastEvent) /\ sawDisconnect)
       => (lpc = "returned" /\ loopResult = "Ok")
    /\ (IsAbort(lastEvent) /\ ~sawDisconnect) => lpc = "running"

\* C3 witness: the loop has returned Ok(()) on the abort that followed the
\* notification
C3_Witness ==
    /\ IsAbort(lastEvent)
    /\ sawDisconnect
    /\ lpc = "returned"
    /\ loopResult = "Ok"
    /\ \E h \in Handles : dpc[h] = "disconnected"

\* C4: every snapshot device_info() returns is the transform of one
\* measurement the event loop published, time and all fields from that one.
C4_ReturnedFromOnePublished ==
    \A h \in Handles :
        qresult[h].kind = "Ok"
        => \E n \in 1..Len(published) :
              IsSnapshotOf(Unwrap(qresult[h].info), published[n])

\* C4 witness: a returned snapshot after publishes of two different payloads
C4_Witness ==
    \E h \in Handles :
        /\ qresult[h].kind = "Ok"
        /\ Len(published) >= 2
        /\ published[1].data # published[2].data

--------------------------------------------------------------------------
(* Properties of the codec, checked under SpecCodec.  What a payload should *)
(* parse to is stated here over the positions of its bytes.                 *)

\* Valid text over the bytes of the payloads: a byte is ASCII, or the
\* second byte of a two-byte sequence, or the first byte of one
IsText(b) ==
    \A i \in 1..Len(b) :
        \/ b[i] \notin {"xC3", "xA9", "xFF"}
        \/ b[i] = "xC3" /\ i < Len(b) /\ b[i + 1] = "xA9"
        \/ b[i] = "xA9" /\ i > 1 /\ b[i - 1] = "xC3"

Inked(s) == {i \in 1..Len(s) : s[i] \notin {" ", "\t", "\n", "\r"}}

LeastOf(S) == CHOOSE x \in S : \A y \in S : x <= y

GreatestOf(S) == CHOOSE x \in S : \A y \in S : x >= y

\* s without its surrounding whitespace
Stripped(s) ==
    IF Inked(s) = {} THEN <<>>
    ELSE SubSeq(s, LeastOf(Inked(s)), GreatestOf(Inked(s)))

Commas(t) == {i \in 1..Len(t) : t[i] = ","}

\* The segments of t, each by the position of its first byte
SegStarts(t) == {1} \cup {c + 1 : c \in Commas(t)}

SegEnd(t, a) ==
    IF \E c \in Commas(t) : c >= a
    THEN LeastOf({c \in Commas(t) : c >= a}) - 1
    ELSE Len(t)

Equals(t, a) == {i \in a..SegEnd(t, a) : t[i] = "="}

SegKey(t, a) == SubSeq(t, a, LeastOf(Equals(t, a)) - 1)

SegValue(t, a) == SubSeq(t, LeastOf(Equals(t, a)) + 1, SegEnd(t, a))

\* Every segment of t has the form key=value
WellFormed(t) == \A a \in SegStarts(t) : Equals(t, a) # {}

\* m maps the distinct keys of t, each to the value of its last segment
MapsKeysOf(m, t) ==
    LET key == [a \in SegStarts(t) |-> SegKey(t, a)] IN
    /\ DOMAIN m = {key[a] : a \in DOMAIN key}
    /\ \A a \in DOMAIN key :
          (\A b \in DOMAIN key : key[b] = key[a] => b <= a)
          => m[key[a]] = SegValue(t, a)

\* C5 as claimed: a payload whose segments all have the form key=value
\* parses to the map of its distinct keys, each with the literal text after
\* its '=', the last occurrence of a key winning.
C5_MapOfPayload ==
    (stage # "raw" /\ IsText(input) /\ WellFormed(input))
    => (message.ok /\ MapsKeysOf(message.payload, input))

\* C5 as amended: a payload that, with its surrounding whitespace removed,
\* has only segments of the form key=value parses to the map of the
\* distinct keys of that trimmed text, each with the literal text after its
\* first '=', the last occurrence of a key winning.
C5_MapOfTrimmedPayload ==
    LET text == Stripped(input) IN
    (stage # "raw" /\ IsText(input) /\ WellFormed(text))
    => (message.ok /\ MapsKeysOf(message.payload, text))

\* C5 witness: a parsed payload with surrounding whitespace and a key that
\* occurs twice with different values
C5_Witness ==
    /\ stage = "parsed"
    /\ message.ok
    /\ Stripped(input) # input
    /\ \E a, b \in SegStarts(Stripped(input)) :
          /\ a < b
          /\ SegKey(Stripped(input), a) = SegKey(Stripped(input), b)
          /\ SegValue(Stripped(input), a) # SegValue(Stripped(input), b)

\* C6: a payload that is not valid text, or that has a segment without '='
\* once trimmed and split on ',', fails with InvalidFormat carrying the
\* payload's bytes, and there is no map.
C6_InvalidFormat ==
    (stage # "raw" /\ (~IsText(input) \/ ~WellFormed(Stripped(input))))
    => /\ ~message.ok
       /\ message.err = [kind |-> "InvalidFormat", bytes |-> input]
       /\ "payload" \notin DOMAIN message

\* C6 witness: a rejected payload whose first segment is well-formed and
\* whose last segment is the empty text after a trailing comma
C6_Witness ==
    /\ stage = "parsed"
    /\ ~message.ok
    /\ IsText(input)
    /\ Len(input) > 1
    /\ input[Len(input)] = ","
    /\ Equals(input, 1) # {}

\* The required fields in the order the decoder is to examine them
FieldOrder == <<
    <<"p", "1">>, <<"p", "2">>, <<"w", "1">>, <<"w", "2">>, <<"p", "e">>,
    <<"o", "1">>, <<"o", "2">>, <<"d", "o">>, <<"l", "v">>, <<"c", "j">>,
    <<"k", "n">>, <<"g", "1">>, <<"g", "2">>, <<"t", "l">>, <<"t", "h">>,
    <<"l", "0">> >>

Absent(i) == FieldOrder[i] \notin DOMAIN message.payload

Unparsable(i) ==
    /\ ~Absent(i)
    /\ ~FromStr(Fields[i].ty, message.payload[FieldOrder[i]]).ok

Offending == {i \in 1..Len(FieldOrder) : Absent(i) \/ Unparsable(i)}

RecordFields ==
    {"p1", "p2", "w1", "w2", "pe", "o1", "o2", "do", "lv", "cj", "kn", "g1",
     "g2", "tl", "th", "l0"}

\* C7: try_from fails with one error naming the first field, in the order
\* p1 p2 w1 w2 pe o1 o2 do lv cj kn g1 g2 tl th l0, that is missing
\* (MissingField) or does not parse (InvalidField with the parse error);
\* it returns a record, of all 16 fields, only when there is no such field.
C7_FirstOffendingField ==
    stage \in {"decoded", "transformed"}
    => IF Offending = {}
       THEN record.ok /\ DOMAIN record.value = RecordFields
       ELSE LET f == LeastOf(Offending) IN
            /\ ~record.ok
            /\ "value" \notin DOMAIN record
            /\ record.err.field = FieldOrder[f]
            /\ Absent(f) => record.err = [kind |-> "MissingField",
                                          field |-> FieldOrder[f]]
            /\ Unparsable(f)
               => /\ record.err.kind = "InvalidField"
                  /\ record.err.cause =
                       FromStr(Fields[f].ty,
                               message.payload[FieldOrder[f]]).err

\* C7 witness: a decode that failed on a payload with two offending fields,
\* one of them the discharge-depth field
C7_Witness ==
    /\ stage = "decoded"
    /\ ~record.ok
    /\ Cardinality(Offending) = 2
    /\ 8 \in Offending
    /\ record.err.field = <<"d", "o">>

\* The status payload of test_message_device_info, the fields of
\* RawDeviceInfo only, as literal bytes
RoundTripPayload ==
    <<"p", "1", "=", "1", ",", "p", "2", "=", "1", ",",
      "w", "1", "=", "2", "3", ",", "w", "2", "=", "2", "3", ",",
      "p", "e", "=", "9", "9", ",", "o", "1", "=", "1", ",",
      "o", "2", "=", "1", ",", "d", "o", "=", "8", "0", ",",
      "l", "v", "=", "2", "0", "0", ",", "c", "j", "=", "2", ",",
      "k", "n", "=", "2", "2", "1", "7", ",", "g", "1", "=", "1", ",",
      "g", "2", "=", "0", ",", "t", "l", "=", "2", "7", ",",
      "t", "h", "=", "2", "7", ",", "l", "0", "=", "1">>

\* The fields of the round-trip scenario other than solar1.pass_through
RoundTripFields(i) ==
    /\ i.solar1.charging = TRUE
    /\ i.solar1.power = [unit |-> "Watt", value |-> [hi |-> 0, lo |-> 23]]
    /\ i.output1.active = TRUE
    /\ i.output1.power = [unit |-> "Watt", value |-> [hi |-> 0, lo |-> 1]]
    /\ i.battery.charge = [unit |-> "Percentage", value |-> 99]
    /\ i.battery.discharge_depth = [unit |-> "Percentage", value |-> 80]
    /\ i.battery.output_threshold =
          [unit |-> "Watt", value |-> [hi |-> 0, lo |-> 200]]
    /\ i.battery.capacity =
          [unit |-> "WattHours", value |-> [hi |-> 0, lo |-> 2217]]
    /\ i.scene = "Dusk"
    /\ i.temperature.min = [unit |-> "Celsius", value |-> 27]
    /\ i.temperature.max = [unit |-> "Celsius", value |-> 27]
    /\ i.battery.internal.charging = TRUE
    /\ i.battery.internal.discharging = FALSE
    /\ i.battery.internal.discharge_depth = FALSE
    /\ i.battery.internal.undervoltage = FALSE

\* C8 as claimed: the round-trip payload decodes to a snapshot with
\* solar1.charging and solar1.pass_through both true and the listed powers,
\* battery values, scene, temperatures and internal battery flags.
C8_RoundTripPassThrough ==
    (input = RoundTripPayload /\ stage = "transformed")
    => /\ info.kind = "Value"
       /\ RoundTripFields(info.value)
       /\ info.value.solar1.pass_through = TRUE

\* C8 as amended: the round-trip payload decodes to a snapshot with
\* solar1.charging true, solar1.pass_through false (bit 1 of p1=1 is clear)
\* and the listed powers, battery values, scene, temperatures and internal
\* battery flags; and the payload does reach the transform.
C8_RoundTrip ==
    /\ (input = RoundTripPayload /\ stage = "parsed") => message.ok
    /\ (input = RoundTripPayload /\ stage = "decoded") => record.ok
    /\ (input = RoundTripPayload /\ stage = "transformed")
       => /\ info.kind = "Value"
          /\ RoundTripFields(info.value)
          /\ info.value.solar1.pass_through = FALSE

\* C8 witness: the round-trip payload has gone through all three steps
C8_Witness ==
    /\ input = RoundTripPayload
    /\ stage = "transformed"
    /\ info.kind = "Value"

\* The bits of status field f that a flag reads, as a modulus
FlagBits(f) ==
    IF f \in {"p1", "p2"} THEN 4 ELSE IF f \in {"o1", "o2"} THEN 2 ELSE 16

\* C9: each flag of a snapshot is one fixed bit of its status byte, for
\* every byte 0..255, and a status byte that differs from the decoded one
\* in other bits only gives the same snapshot.
C9_FlagBits ==
    stage = "transformed"
    => LET r == record.value
           i == info.value
       IN
       /\ i.solar1.charging = (r.p1 % 2 = 1)
       /\ i.solar1.pass_through = ((r.p1 \div 2) % 2 = 1)
       /\ i.solar2.charging = (r.p2 % 2 = 1)
       /\ i.solar2.pass_through = ((r.p2 \div 2) % 2 = 1)
       /\ i.output1.active = (r.o1 % 2 = 1)
       /\ i.output2.active = (r.o2 % 2 = 1)
       /\ i.battery.internal.charging = (r.l0 % 2 = 1)
       /\ i.battery.internal.discharging = ((r.l0 \div 2) % 2 = 1)
       /\ i.battery.internal.discharge_depth = ((r.l0 \div 4) % 2 = 1)
       /\ i.battery.internal.undervoltage = ((r.l0 \div 8) % 2 = 1)
       /\ \A f \in {"p1", "p2", "o1", "o2", "l0"} :
             \A b \in 0..ByteMax :
                b % FlagBits(f) = r[f] % FlagBits(f)
                => DeviceInfoFrom(
                       [time |-> i.timestamp,
                        data |-> <<[r EXCEPT ![f] = b]>>]) = info

\* C9 witness: a snapshot of a status byte with all eight bits set
C9_Witness ==
    /\ stage = "transformed"
    /\ record.value.p1 = 255
    /\ info.value.solar1.charging
    /\ info.value.solar1.pass_through

\* C10: cj "0" decodes to Day, "1" to Night, "2" to Dusk; with any other
\* text for cj the decode fails and there is no record and no snapshot, and
\* the error, when the nine fields before cj are present and parse, is
\* InvalidField of cj with the InvalidScene error as its cause.
C10_Scene ==
    LET cj == <<"c", "j">> IN
    (stage \in {"decoded", "transformed"} /\ cj \in DOMAIN message.payload)
    => LET text == message.payload[cj] IN
       /\ (record.ok /\ text = <<"0">>) => record.value.cj = "Day"
       /\ (record.ok /\ text = <<"1">>) => record.value.cj = "Night"
       /\ (record.ok /\ text = <<"2">>) => record.value.cj = "Dusk"
       /\ text \notin {<<"0">>, <<"1">>, <<"2">>}
          => /\ ~record.ok
             /\ "value" \notin DOMAIN record
             /\ stage # "transformed"
             /\ (Offending \cap 1..9 = {})
                => record.err = [kind |-> "InvalidField", field |-> cj,
                                 cause |-> "InvalidSceneError"]

\* C10 witness: a decode that failed on cj=02, all other fields being fine
C10_Witness ==
    /\ stage = "decoded"
    /\ <<"c", "j">> \in DOMAIN message.payload
    /\ message.payload[<<"c", "j">>] = <<"0", "2">>
    /\ Offending = {10}
    /\ ~record.ok
    /\ record.err.cause = "InvalidSceneError"

--------------------------------------------------------------------------
(* Properties of the topics, checked under SpecTopics                       *)

\* The topic with the given segments
RECURSIVE Segments(_)
Segments(segs) ==
    IF Len(segs) = 1 THEN segs[1]
    ELSE segs[1] \o "/" \o Segments(Tail(segs))

SubscribedTo(topic) ==
    \A n \in 1..Len(requests) :
        requests[n].kind = "Subscribe" => requests[n].topic = topic

PublishedTo(topic) ==
    \A n \in 1..Len(requests) :
        requests[n].kind = "Publish" => requests[n].topic = topic

\* C11 as claimed: the session subscribes to <namespace>/<type>/device/
\* <address>/ctrl and publishes every refresh request to
\* <namespace>/App/<type>/<address>/ctrl.
C11_TopicsAppFirst ==
    /\ SubscribedTo(Segments(<<"hame_energy", options.ty, "device",
                               options.mac, "ctrl">>))
    /\ PublishedTo(Segments(<<"hame_energy", "App", options.ty,
                              options.mac, "ctrl">>))

C11_TopicsOfIdentity ==
    /\ SubscribedTo(Segments(<<"hame_energy", options.ty, "device",
                               options.mac, "ctrl">>))
    /\ PublishedTo(Segments(<<"hame_energy", options.ty, "App",
                              options.mac, "ctrl">>))

\* C11 as amended: the session subscribes to <namespace>/<type>/device/
\* <address>/ctrl and publishes every refresh request to
\* <namespace>/<type>/App/<address>/ctrl, and the identity both are made
\* from never changes after construction.
C11_Topics == [](C11_TopicsOfIdentity) /\ [][options' = options]_vars

\* C11 witness: refresh requests of the original handle and of its clone
\* are queued, for a device that is not the default one
C11_Witness ==
    /\ options.ty = "HMB-2"
    /\ options.mac = "ddeeff"
    /\ alive["d2"]
    /\ Cardinality({n \in 1..Len(requests) :
                        requests[n].kind = "Publish"}) = 2

--------------------------------------------------------------------------
(* Further properties of the codec, checked under SpecCodec                 *)

ConsumedKeys == {FieldOrder[i] : i \in 1..Len(FieldOrder)}

\* Keys and values to add to a message or to give to its other keys
ProbeKeys == {<<"v", "v">>, <<"z">>, <<>>, <<"p", "1", "0">>}
ProbeValues == {<<>>, <<"x", "=", "y">>}

\* m with key k set to v
WithKey(m, k, v) ==
    [x \in DOMAIN m \cup {k} |-> IF x = k THEN v ELSE m[x]]

\* C12: the outcome of the record decode, success or the error, and the
\* record, is that of the message cut down to the 16 consumed keys; giving
\* any other key a value, new or changed, does not alter it.
C12_OtherKeysIgnored ==
    stage \in {"decoded", "transformed"}
    => LET m == message.payload
           core == [k \in DOMAIN m \cap ConsumedKeys |-> m[k]]
       IN /\ TryFrom(core) = record
          /\ \A k \in (ProbeKeys \cup DOMAIN m) \ ConsumedKeys :
                \A v \in ProbeValues :
                    TryFrom(WithKey(m, k, v)) = record

\* C12 witness: a record decoded from a message that has another key
C12_Witness ==
    /\ stage = "decoded"
    /\ record.ok
    /\ DOMAIN message.payload \ ConsumedKeys # {}

\* C13 as claimed: every segment of a payload that Message::parse accepts
\* contains exactly one '='.
C13_ExactlyOneEquals ==
    (stage # "raw" /\ message.ok)
    => LET text == Stripped(input) IN
       \A a \in SegStarts(text) : Cardinality(Equals(text, a)) = 1

\* C13 as amended: every segment of a payload that Message::parse accepts
\* contains at least one '='; a segment with two or more is accepted, its
\* key the text before the first '=' and its value all the text after it,
\* the further '=' included.
C13_FirstEqualsSplits ==
    LET text == Stripped(input) IN
    /\ (stage # "raw" /\ message.ok)
       => \A a \in SegStarts(text) : Equals(text, a) # {}
    /\ (stage # "raw" /\ IsText(input) /\ WellFormed(text))
       => LET key == [a \in SegStarts(text) |-> SegKey(text, a)] IN
          /\ message.ok
          /\ \A a \in DOMAIN key :
                Cardinality(Equals(text, a)) >= 2
                => /\ key[a] \in DOMAIN message.payload
                   /\ \A n \in 1..Len(key[a]) : key[a][n] # "="
                   /\ (\A b \in DOMAIN key : key[b] = key[a] => b <= a)
                      => message.payload[key[a]] = SegValue(text, a)

\* C13 witness: an accepted payload with a segment that has two '='
C13_Witness ==
    /\ stage = "parsed"
    /\ message.ok
    /\ \E a \in SegStarts(Stripped(input)) :
          /\ Cardinality(Equals(Stripped(input), a)) = 2
          /\ SegKey(Stripped(input), a) \in DOMAIN message.payload
          /\ \E n \in 1..Len(message.payload[SegKey(Stripped(input), a)]) :
                message.payload[SegKey(Stripped(input), a)][n] = "="

--------------------------------------------------------------------------
(* Further properties of the session and the event loop, checked under Spec *)

\* C14: a step in which the loop polls a connection error, other than the
\* MqttState I/O error of kind ConnectionAborted polled with the disconnect
\* flag set, leaves the loop running and the flag and the slot as they were.
C14_OtherErrorsTolerated ==
    [][\A err \in {AbortError} \cup OtherErrors :
          (LoopError(err) /\ ~(err = AbortError /\ disconnect))
          => /\ lpc' = "running"
             /\ loopResult' = loopResult
             /\ disconnect' = disconnect
             /\ slot' = slot]_vars

\* C14 witness: an error of another kind was polled with the flag set and
\* the loop is running
C14_Witness ==
    /\ disconnect
    /\ lastEvent.type = "Err"
    /\ ~IsAbort(lastEvent)
    /\ lpc = "running"

\* C15: the step in which the loop polls a publish whose payload fails
\* Message::parse or the field decode ends the loop task without a result
\* and without a write to the slot; from then on no event is polled, the
\* slot keeps its value and version, and its sender is gone.
C15_DecodeFailureEndsLoop ==
    [][/\ \A t \in Topics(options), p \in BadPayloads :
             LoopIncomingPublish(t, p)
             => /\ lpc' = "panicked"
                /\ loopResult' = "none"
                /\ slot' = slot
                /\ published' = published
       /\ lpc = "panicked"
          => /\ lpc' = "panicked"
             /\ ~SenderAlive'
             /\ slot' = slot
             /\ published' = published
             /\ lastEvent' = lastEvent
             /\ disconnect' = disconnect]_vars

\* C15 witness: the loop has ended on a bad payload after it had published
\* a snapshot, with a query waiting
C15_Witness ==
    /\ lpc = "panicked"
    /\ lastEvent.what = "Publish"
    /\ Len(published) >= 1
    /\ \E h \in Handles : dpc[h] = "waiting"

NoReader == \A h \in Handles : ~alive[h]

GoodPayloads == {BasePayload, AltPayload}

\* C16 as claimed, for the way the loop ends: once every Device handle has
\* been dropped, the loop ends only by returning Ok(()).
C16_EndsCleanlyOnceDropped ==
    [][(NoReader /\ lpc = "running" /\ lpc' # "running")
          => (lpc' = "returned" /\ loopResult' = "Ok")]_vars

\* C16 as amended: the loop never returns an Err; it returns Ok(()) when it
\* polls a publish that decodes and no Device handle is left, without a
\* write to the slot; it does not return on such a publish while a handle
\* is left; and it returns only so or on the abort error polled with the
\* disconnect flag set.
C16_ReturnsOkOnly ==
    [][/\ lpc' = "returned" => loopResult' = "Ok"
       /\ loopResult' \in {"none", "Ok"}
       /\ \A t \in Topics(options), p \in GoodPayloads :
             LoopIncomingPublish(t, p)
             => IF NoReader
                THEN lpc' = "returned" /\ loopResult' = "Ok" /\ slot' = slot
                ELSE lpc' = "running" /\ slot'.version = slot.version + 1
       /\ (lpc = "running" /\ lpc' = "returned")
          => \/ NoReader /\ lastEvent'.what = "Publish"
             \/ IsAbort(lastEvent') /\ disconnect]_vars

\* C16 witness: the loop has returned Ok(()) on a publish polled after the
\* last handle was dropped
C16_Witness ==
    /\ NoReader
    /\ lpc = "returned"
    /\ loopResult = "Ok"
    /\ lastEvent.what = "Publish"

\* C17: a step in which the loop polls a publish on a topic other than the
\* device's data topic changes neither the slot nor the state of the loop.
C17_OtherTopicsIgnored ==
    [][\A t \in Topics(options) \ {DataTopic(options)} :
          \A p \in LoopPayloads :
             LoopIncomingPublish(t, p)
             => /\ slot' = slot
                /\ lpc' = lpc
                /\ loopResult' = loopResult
                /\ disconnect' = disconnect]_vars

\* C18: a step in which the loop polls an incoming packet other than a
\* publish, or an outgoing notification other than Disconnect, leaves the
\* disconnect flag and the slot as they were and the loop running, and
\* changes for no handle what changed() would return.
C18_OtherPacketsObserved ==
    [][((\E packet \in OtherIncoming : LoopIncomingOther(packet))
            \/ LoopOutgoingOther)
          => /\ disconnect' = disconnect
             /\ slot' = slot
             /\ lpc' = "running"
             /\ loopResult' = loopResult
             /\ SenderAlive'
             /\ wake' = wake
             /\ dpc' = dpc
             /\ \A h \in Handles :
                   (slot'.version # rxVersion'[h])
                      = (slot.version # rxVersion[h])]_vars

\* C18 witness: the loop has polled the notification of a refresh request
\* and the query that sent it is still waiting
C18_Witness ==
    /\ lastEvent.type = "Outgoing"
    /\ lastEvent.what = "Publish"
    /\ lpc = "running"
    /\ \E h \in Handles : dpc[h] = "waiting" /\ slot.version = rxVersion[h]

\* The refresh request of the device
RefreshRequest ==
    [kind |-> "Publish",
     topic |-> Segments(<<"hame_energy", options.ty, "App", options.mac,
                          "ctrl">>),
     qos |-> "AtLeastOnce", retain |-> FALSE, payload |-> "cd=1"]

\* C19: device_info() sends the refresh request cd=1 to the control topic,
\* at least once and not retained, and waits for the slot only once the
\* client has taken it; when the publish fails the call ends with the error
\* at once: it does not wait, reads no slot value and marks none as seen.
C19_PublishThenWait ==
    [][\A h \in Handles :
          /\ (dpc[h] # "waiting" /\ dpc'[h] = "waiting")
             => /\ lpc = "running"
                /\ requests' = Append(requests, RefreshRequest)
                /\ qresult'[h].kind = "pending"
                /\ rxVersion' = rxVersion
          /\ (QueryPublish(h) /\ lpc # "running")
             => /\ qresult'[h].kind = "Err"
                /\ qresult'[h].info = <<>>
                /\ qresult'[h].wake = "none"
                /\ dpc'[h] = "idle"
                /\ rxVersion' = rxVersion
                /\ requests' = requests
          /\ (dpc[h] # "woken" /\ dpc'[h] = "woken") => dpc[h] = "waiting"
      ]_vars

\* C19 witness: a call has ended with the publish error while the slot
\* holds a value its handle has not seen
C19_Witness ==
    \E h \in Handles :
        /\ qresult[h].kind = "Err"
        /\ qresult[h].wake = "none"
        /\ dpc[h] = "idle"
        /\ slot.version # rxVersion[h]

--------------------------------------------------------------------------
(* The numeric fields, checked under SpecCodec.  A numeral is judged by its *)
(* digits, and a stored value by the decimal text it is written as.         *)

ByteFields == {1, 2, 5, 6, 7, 8, 16}
WordFields == {3, 4, 9, 11, 12, 13}
TempFields == {14, 15}

IsNumeral(d) ==
    /\ Len(d) >= 1
    /\ \A n \in 1..Len(d) :
          d[n] \in {"0", "1", "2", "3", "4", "5", "6", "7", "8", "9"}

\* d without its leading zeros, one digit at least
Canonical(d) ==
    LET nz == {n \in 1..Len(d) : d[n] # "0"} IN
    IF nz = {} THEN <<"0">> ELSE SubSeq(d, LeastOf(nz), Len(d))

DigitRank(c) ==
    CHOOSE n \in 0..9 :
        <<"0", "1", "2", "3", "4", "5", "6", "7", "8", "9">>[n + 1] = c

\* The number written d is at most the number written max, both canonical
AtMost(d, max) ==
    \/ Len(d) < Len(max)
    \/ /\ Len(d) = Len(max)
       /\ \/ d = max
          \/ \E n \in 1..Len(d) :
                /\ \A k \in 1..(n - 1) : d[k] = max[k]
                /\ DigitRank(d[n]) < DigitRank(max[n])

Sign(t) == IF t # <<>> /\ t[1] \in {"+", "-"} THEN t[1] ELSE ""

Unsigned(t) == IF Sign(t) = "" THEN t ELSE Tail(t)

ByteMaxText == <<"2", "5", "5">>
WordMaxText == <<"4", "2", "9", "4", "9", "6", "7", "2", "9", "5">>
TempMaxText == <<"2", "1", "4", "7", "4", "8", "3", "6", "4", "7">>
TempMinText == <<"2", "1", "4", "7", "4", "8", "3", "6", "4", "8">>

\* Text t is a decimal numeral in the range of field i
InRange(i, t) ==
    /\ IsNumeral(Unsigned(t))
    /\ IF i \in TempFields
       THEN AtMost(Canonical(Unsigned(t)),
                   IF Sign(t) = "-" THEN TempMinText ELSE TempMaxText)
       ELSE /\ Sign(t) # "-"
            /\ AtMost(Canonical(Unsigned(t)),
                      IF i \in ByteFields THEN ByteMaxText ELSE WordMaxText)

\* The decimal text of a number held as two 16-bit limbs
RECURSIVE LimbsText(_)
LimbsText(v) ==
    LET low == (v.hi % 10) * 65536 + v.lo
        q == [hi |-> (v.hi \div 10) + ((low \div 10) \div 65536),
              lo |-> (low \div 10) % 65536]
        last == <<"0", "1", "2", "3", "4", "5", "6", "7", "8", "9">>
                    [(low % 10) + 1]
    IN IF q.hi = 0 /\ q.lo = 0 THEN <<last>>
       ELSE Append(LimbsText(q), last)

\* The decimal text of the number stored for field i, without its sign
StoredText(i, v) ==
    IF i \in WordFields THEN LimbsText(v.value)
    ELSE IF i \in TempFields
    THEN (IF v.value = (-2147483647) - 1 THEN TempMinText
          ELSE IF v.value < 0 THEN LimbsText([hi |-> (-v.value) \div 65536,
                                              lo |-> (-v.value) % 65536])
          ELSE LimbsText([hi |-> v.value \div 65536,
                          lo |-> v.value % 65536]))
    ELSE IF Fields[i].ty = "u8" THEN LimbsText([hi |-> 0, lo |-> v])
    ELSE LimbsText([hi |-> 0, lo |-> v.value])

StoredNegative(i, v) == i \in TempFields /\ v.value < 0

NumericFields == ByteFields \cup WordFields \cup TempFields

\* C20: a numeric field is accepted exactly when its text is a numeral in
\* the range of its wire type, 0..255 for status bytes and percentages,
\* 0..2^32-1 for powers and energy, -2^31..2^31-1 for temperatures; what is
\* stored is the number written, in the unit of the field; a text out of
\* range is rejected with InvalidField naming the field.
C20_NumericRanges ==
    stage \in {"decoded", "transformed"}
    => LET offending == Offending IN
       \A i \in NumericFields :
          LET name == FieldOrder[i] IN
          (name \in DOMAIN message.payload
              /\ \A n \in 1..(i - 1) : n \notin offending)
          => LET t == message.payload[name] IN
             IF InRange(i, t)
             THEN /\ i \notin offending
                  /\ record.ok
                     => LET v == record.value[Fields[i].name] IN
                        /\ StoredText(i, v) = Canonical(Unsigned(t))
                        /\ StoredNegative(i, v)
                              => Sign(t) = "-"
                        /\ (Sign(t) = "-" /\ ~StoredNegative(i, v))
                              => Canonical(Unsigned(t)) = <<"0">>
                        /\ Fields[i].ty # "u8"
                              => v.unit = Fields[i].ty
             ELSE /\ ~record.ok
                  /\ record.err.kind = "InvalidField"
                  /\ record.err.field = name

\* C20 witness: a record with a percentage above 100
C20_Witness ==
    /\ stage = "decoded"
    /\ record.ok
    /\ record.value.pe.value = 255
    /\ message.payload[<<"p", "e">>] = <<"2", "5", "5">>

\* The states of the event loop: Running and DisconnectRequested are the
\* loop polling with the flag clear and set, Terminated is the loop having
\* returned from the guarded Err arm
Running == lpc = "running" /\ ~disconnect
DisconnectRequested == lpc = "running" /\ disconnect
Terminated == lpc = "returned" /\ IsAbort(lastEvent)

\* C21: the disconnect flag starts false, Device::disconnect() leaves it
\* alone, only the loop polling an Outgoing::Disconnect notification
\* changes it, and that sets it; once set it stays set, so the loop never
\* goes from DisconnectRequested back to Running, and it becomes
\* Terminated only from DisconnectRequested.
C21_FlagMonotonic ==
    /\ disconnect = FALSE
    /\ [][/\ (\E h \in Handles : Disconnect(h)) => disconnect' = disconnect
          /\ disconnect' # disconnect
                => (LoopOutgoingDisconnect /\ disconnect' = TRUE)
          /\ disconnect => disconnect'
          /\ DisconnectRequested => ~Running'
          /\ (~Terminated /\ Terminated') => DisconnectRequested]_vars

\* C21 witness: the loop in DisconnectRequested after Device::disconnect()
\* and the notification, a status publish polled since and the flag still
\* set
C21_Witness ==
    /\ DisconnectRequested
    /\ sawDisconnect
    /\ lastEvent.type = "Incoming"
    /\ lastEvent.what = "Publish"
    /\ \E h \in Handles : dpc[h] = "disconnected"

\* C22: of two successive device_info() calls that returned on one handle,
\* the later one, completed with the event loop alive, returned a
\* snapshot published after the one the earlier call returned, hence a
\* different one; and a call that has returned a snapshot has marked it
\* as seen.
C22_SuccessiveDistinct ==
    \A h \in Handles :
        /\ \A i \in 2..Len(returned[h]) :
              returned[h][i].loopAlive
              => /\ returned[h][i].at > returned[h][i - 1].at
                 /\ published[returned[h][i].at]
                       # published[returned[h][i - 1].at]
        /\ (dpc[h] = "idle" /\ qresult[h].kind = "Ok")
           => /\ returned[h] # <<>>
              /\ rxVersion[h] = returned[h][Len(returned[h])].at

\* C22 witness: a handle whose two calls returned the first and then the
\* second published snapshot, the event loop alive at both
C22_Witness ==
    \E h \in Handles :
        /\ Len(returned[h]) = 2
        /\ returned[h][1] = Completion(1, TRUE)
        /\ returned[h][2] = Completion(2, TRUE)
        /\ SenderAlive

\* The call of handle h waits in changed() and a snapshot has been
\* published since its refresh request
PublishedWhilePending(h) ==
    /\ alive[h]
    /\ dpc[h] = "waiting"
    /\ Len(published) > qresult[h].issuedAt

\* The calls of h and g were both pending when the n-th snapshot was
\* published, and both read the slot before the next one
BothReturnedAt(h, g, n) ==
    /\ h # g
    /\ qresult[h].kind = "Ok" /\ qresult[g].kind = "Ok"
    /\ qresult[h].issuedAt < n /\ qresult[g].issuedAt < n
    /\ qresult[h].readAt = n /\ qresult[g].readAt = n

\* C23: the handles cloned from one Device track the slot separately.  A
\* call that waits while a snapshot is published has that change to wake
\* on, whatever the other handles do; a step of one handle's call leaves
\* the version seen, the wake-up and the position of every other handle
\* as they are; and two calls pending on two handles when one snapshot is
\* published both return that snapshot.
C23_ClonesIndependent ==
    /\ [](\A h \in Handles :
            PublishedWhilePending(h) => slot.version # rxVersion[h])
    /\ [](\A h, g \in Handles : \A n \in 1..Len(published) :
            BothReturnedAt(h, g, n)
            => /\ qresult[h].wake = "Ok" /\ qresult[g].wake = "Ok"
               /\ IsSnapshotOf(Unwrap(qresult[h].info), published[n])
               /\ IsSnapshotOf(Unwrap(qresult[g].info), published[n]))
    /\ [][\A h \in Handles :
            (QueryPublish(h) \/ QueryChanged(h) \/ QueryBorrow(h))
            => \A g \in Handles \ {h} :
                  /\ rxVersion'[g] = rxVersion[g]
                  /\ wake'[g] = wake[g]
                  /\ dpc'[g] = dpc[g]
                  /\ qresult'[g] = qresult[g]]_vars

\* C23 witness: the calls of a Device and of its clone, both pending when
\* the first snapshot was published, have both returned it
C23_Witness ==
    /\ BothReturnedAt("d1", "d2", 1)
    /\ qresult["d1"].issuedAt = 0
    /\ qresult["d2"].issuedAt = 0
    /\ qresult["d1"].info = qresult["d2"].info
    /\ Len(published) = 1

--------------------------------------------------------------------------
(* Progress of a query, checked under SpecFair                              *)

\* The call of handle h has returned a snapshot published after its
\* refresh request
ReturnedFresh(h) ==
    /\ dpc[h] = "idle"
    /\ qresult[h].kind = "Ok"
    /\ qresult[h].readAt > qresult[h].issuedAt

\* C24: under fair scheduling, a device_info() call that waits after its
\* refresh request was taken returns a snapshot once the event loop has
\* decoded and published one since that request.  The other way round,
\* changed() returns only when a snapshot has been published or the loop
\* has ended, so with nothing ever published and the loop running the
\* call waits for ever; nothing but changed() returning ends the wait (no
\* timeout), and the waiting call sends no further request (no retry).
C24_QueryProgress ==
    /\ \A h \in Handles : PublishedWhilePending(h) ~> ReturnedFresh(h)
    /\ [][\A h \in Handles :
            /\ QueryChanged(h) => (published # <<>> \/ ~SenderAlive)
            /\ (dpc[h] = "waiting" /\ dpc'[h] # "waiting")
                  => QueryChanged(h)
            /\ (dpc[h] = "waiting" /\ Len(requests') > Len(requests))
                  => \E g \in Handles \ {h} :
                        QueryPublish(g) \/ Disconnect(g)]_vars

\* C24 witness: a call that waited across the first status publish and
\* returned it
C24_Witness ==
    \E h \in Handles :
        /\ ReturnedFresh(h)
        /\ qresult[h].wake = "Ok"
        /\ qresult[h].issuedAt = 0
        /\ qresult[h].readAt = 1
        /\ returned[h] = <<Completion(1, TRUE)>>

==========================================================================
